---- MODULE Spec2Model ----
(***************************************************************************)
(* Model of cfn-checker.py: the pipeline resolver with its in-place path   *)
(* normalisation, the three checking stages (cfn-lint, validate-template,  *)
(* cfn_nag) and the __main__ guard that launches them.                     *)
(*                                                                         *)
(* Strings are sequences of one-character strings, so that the substring   *)
(* test, str.replace and str.split are computed as Python computes them.   *)
(* argparse is assumed to accept the command line and the cloud clients to *)
(* be constructed and authorised: get_pipeline returns a definition or     *)
(* raises PipelineNotFoundException.  The outcome of every lint run, file  *)
(* read, validate_template call and scanner subprocess is chosen           *)
(* nondeterministically.                                                   *)
(***************************************************************************)
EXTENDS Integers, Sequences, FiniteSets, TLC

(* ----------------------------- bounds ---------------------------------- *)
\* the largest number of actions a pipeline definition holds
MaxActions == 3

(* --------------------------- string values ----------------------------- *)
Packaged == <<"p","a","c","k","a","g","e","d">>
TemplateWord == <<"t","e","m","p","l","a","t","e">>
Separator == <<":",":">>
FailuresMarker ==
  <<"F","a","i","l","u","r","e","s"," ","c","o","u","n","t",":"," ","0">>

PathT == TemplateWord
PathP == Packaged
PathBP == <<"b","/">> \o Packaged

\* TemplatePath configuration values "<artifact>::<relative path>"
TPValue(path) == <<"A">> \o Separator \o path
\* a TemplatePath value without the "::" separator
MalformedTP == PathT

\* scanner output bodies
OutputFailures3 ==
  <<"F","a","i","l","u","r","e","s"," ","c","o","u","n","t",":"," ","3">>
OutputFailures0 == <<"W","a","r","n","i","n","g","s"," ","1","\n">> \o FailuresMarker
OutputEmpty == <<>>

(* ------------------------- Python str helpers -------------------------- *)
\* s[i : i+len(sub)] == sub   (i is 1-based)
MatchAt(s, sub, i) ==
  /\ i + Len(sub) - 1 <= Len(s)
  /\ \A k \in 1..Len(sub) : s[i + k - 1] = sub[k]

\* sub in s
Contains(s, sub) == \E i \in 1..(Len(s) - Len(sub) + 1) : MatchAt(s, sub, i)

RECURSIVE ReplaceFrom(_, _, _, _)
ReplaceFrom(s, old, new, i) ==
  IF i > Len(s) THEN <<>>
  ELSE IF MatchAt(s, old, i)
       THEN new \o ReplaceFrom(s, old, new, i + Len(old))
       ELSE <<s[i]>> \o ReplaceFrom(s, old, new, i + 1)

\* s.replace(old, new): every non-overlapping occurrence, left to right
Replace(s, old, new) == ReplaceFrom(s, old, new, 1)

RECURSIVE SplitFrom(_, _, _, _)
SplitFrom(s, sep, i, cur) ==
  IF i > Len(s) THEN <<cur>>
  ELSE IF MatchAt(s, sep, i)
       THEN <<cur>> \o SplitFrom(s, sep, i + Len(sep), <<>>)
       ELSE SplitFrom(s, sep, i + 1, Append(cur, s[i]))

\* s.split(sep)
Split(s, sep) == SplitFrom(s, sep, 1, <<>>)

\* truth value of an optional string: None and "" are false
Truthy(v) == v.given /\ v.value # <<>>

(* -------------------------- Python list helpers ------------------------ *)
\* l.remove(x): delete the first element equal to x
ListRemove(l, x) ==
  LET i == CHOOSE i \in 1..Len(l) : l[i] = x /\ \A j \in 1..(i - 1) : l[j] # x
  IN  SubSeq(l, 1, i - 1) \o SubSeq(l, i + 1, Len(l))

Count(l, x) == Cardinality({i \in 1..Len(l) : l[i] = x})

IsPrefix(p, l) == Len(p) <= Len(l) /\ SubSeq(l, 1, Len(p)) = p

(* ------------------------------ inputs --------------------------------- *)
\* an optional command-line value: absent (None), "" or a name
ArgValues ==
  { [given |-> FALSE, value |-> <<>>],
    [given |-> TRUE,  value |-> <<>>],
    [given |-> TRUE,  value |-> <<"x">>] }

\* action["configuration"], with or without the TemplatePath key
ActionConfigs ==
  { [hasTemplatePath |-> FALSE, TemplatePath |-> <<>>],
    [hasTemplatePath |-> TRUE,  TemplatePath |-> TPValue(PathT)],
    [hasTemplatePath |-> TRUE,  TemplatePath |-> TPValue(PathP)],
    [hasTemplatePath |-> TRUE,  TemplatePath |-> TPValue(PathBP)],
    [hasTemplatePath |-> TRUE,  TemplatePath |-> MalformedTP] }

SeqsUpTo(S, n) == UNION { [1..k -> S] : k \in 0..n }

RECURSIVE Group(_, _, _)
\* the actions from position start on, a stage ending after each position
\* in cuts
Group(actions, cuts, start) ==
  IF start > Len(actions) THEN <<>>
  ELSE LET ends == {c \in cuts : c >= start /\ c < Len(actions)}
           e == IF ends = {} THEN Len(actions)
                ELSE CHOOSE c \in ends : \A d \in ends : c <= d
       IN  <<SubSeq(actions, start, e)>> \o Group(actions, cuts, e + 1)

\* pipeline_definition["pipeline"]["stages"]: a list of stages, each a
\* non-empty list of actions
Pipelines ==
  { Group(actions, cuts, 1) :
      actions \in SeqsUpTo(ActionConfigs, MaxActions),
      cuts \in SUBSET (1..(MaxActions - 1)) }

\* what subprocess.check_output does: return the output, raise
\* CalledProcessError carrying the output, or raise another error
ScanResults ==
  { [kind |-> "returned", output |-> OutputFailures0],
    [kind |-> "CalledProcessError", output |-> OutputFailures0],
    [kind |-> "CalledProcessError", output |-> OutputFailures3],
    [kind |-> "CalledProcessError", output |-> OutputEmpty],
    [kind |-> "OSError", output |-> OutputEmpty] }

(* ------------------------------ resolver ------------------------------- *)
RECURSIVE Flatten(_)
\* the actions in the order the nested for loops visit them
Flatten(stages) ==
  IF stages = <<>> THEN <<>> ELSE Head(stages) \o Flatten(Tail(stages))

HasTemplatePath(cfg) == cfg.hasTemplatePath

\* the TemplatePath values in discovery order
TemplatePaths(stages) == SelectSeq(Flatten(stages), HasTemplatePath)

\* value.split("::")[1] raises IndexError when there is no "::"
ExtractRaises(stages) ==
  \E i \in 1..Len(TemplatePaths(stages)) :
     Len(Split(TemplatePaths(stages)[i].TemplatePath, Separator)) < 2

\* templates.append(value.split("::")[1]) for every action, in order
ExtractTemplates(stages) ==
  [i \in 1..Len(TemplatePaths(stages)) |->
     Split(TemplatePaths(stages)[i].TemplatePath, Separator)[2]]

\* template.replace("packaged", "template")
FixedName(template) == Replace(template, Packaged, TemplateWord)

IsPackaged(template) == Contains(template, Packaged)

NotPackaged(template) == ~IsPackaged(template)

\* a loop body that removes a packaged path and forgets to append its fix
NormalizeIterNoAppend(ts, i) ==
  IF IsPackaged(ts[i]) THEN ListRemove(ts, ts[i]) ELSE ts

\* one iteration of "for template in templates" on the element at index i
NormalizeIter(ts, i) ==
  IF IsPackaged(ts[i])
  THEN Append(ListRemove(ts, ts[i]), FixedName(ts[i]))
  ELSE ts

(* ------------------------------ run_command ---------------------------- *)
\* "if err:" -- err stays None unless CalledProcessError was raised, and an
\* empty captured output is false as well
ErrTruthy(result) == result.kind = "CalledProcessError" /\ result.output # <<>>

\* run_command on one template: what it prints and how it ends
\*   effect "return": returns to the scan loop, "exit": sys.exit(1),
\*   "raise": an exception other than CalledProcessError propagates
RunCommand(result) ==
  IF result.kind = "OSError"
  THEN [report |-> "none", effect |-> "raise"]
  ELSE IF ErrTruthy(result)
       THEN IF ~Contains(result.output, FailuresMarker)
            THEN [report |-> "failures", effect |-> "exit"]
            ELSE [report |-> "none", effect |-> "return"]
       ELSE [report |-> "no_failures", effect |-> "return"]

\* a bare "except:" would catch SystemExit too
BareExceptCatches(exc) == TRUE

\* "except Exception" catches every Exception subclass but not SystemExit
ExceptExceptionCatches(exc) == exc # "SystemExit"

(* ------------------------------- launch -------------------------------- *)
\* launch with only one of the two flags
ShouldLaunchEither(pn, rg) == Truthy(pn) \/ Truthy(rg)

\* if ARGS.pipeline_name and ARGS.region
ShouldLaunch(pn, rg) == Truthy(pn) /\ Truthy(rg)

\* a launch that scans before it validates
StageAfterSwapped(stage) ==
  CASE stage = "lint" -> "scan"
    [] stage = "scan" -> "validate"
    [] stage = "validate" -> "done"

\* the stage launch calls after the given one returns
StageAfter(stage) ==
  CASE stage = "lint" -> "validate"
    [] stage = "validate" -> "scan"
    [] stage = "scan" -> "done"

\* a handler inside the loop body: go on with the next template
OnLoopExceptionPerTemplate(stage, i) == [pc |-> stage, idx |-> i + 1]

\* the try wraps the whole for loop: the handler runs, the function returns
\* and launch calls the next stage, which iterates the list from its start
OnLoopException(stage, i) == [pc |-> StageAfter(stage), idx |-> 0]

(* ------------------------------- state --------------------------------- *)
VARIABLES
  pc,                  \* where the process is
  pipeline_name,       \* ARGS.pipeline_name
  region,              \* ARGS.region
  pipeline_definition, \* local of fetch_pipeline_definition, may be unbound
  templates,           \* the list of template paths
  extracted,           \* history: templates as extracted, before the rewrite
  idx,                 \* number of elements the current for loop has taken
  exitCode,            \* process exit status, meaningful when pc = "done"
  fault,               \* what ended the process
  lookups,             \* history: get_pipeline calls made
  notFoundPrinted,     \* history: the "does not exist" message was printed
  ran,                 \* history: stages that took at least one template
  lintAborted,         \* history: cfn_lint_checker's handler ran
  valAborted,          \* history: cfn_validator's handler ran
  lastScan             \* history: the latest run_command call

vars == <<pc, pipeline_name, region, pipeline_definition, templates,
          extracted, idx, exitCode, fault, lookups, notFoundPrinted, ran,
          lintAborted, valAborted, lastScan>>

Unbound == [bound |-> FALSE, stages |-> <<>>]

NoScan == [index |-> 0, result |-> [kind |-> "none", output |-> <<>>],
           report |-> "none"]

Init ==
  /\ pc = "start"
  /\ pipeline_name \in ArgValues
  /\ region \in ArgValues
  /\ pipeline_definition = Unbound
  /\ templates = <<>>
  /\ extracted = <<>>
  /\ idx = 0
  /\ exitCode = 0
  /\ fault = "none"
  /\ lookups = 0
  /\ notFoundPrinted = FALSE
  /\ ran = {}
  /\ lintAborted = FALSE
  /\ valAborted = FALSE
  /\ lastScan = NoScan

\* the interpreter ends: status 0 at the end of the script, 1 after an
\* uncaught exception or sys.exit(1)
Terminate(code, why) ==
  /\ pc' = "done"
  /\ exitCode' = code
  /\ fault' = why

(* ------------------------------ actions -------------------------------- *)
\* __main__: both flags given and non-empty, call launch
MainLaunch ==
  /\ pc = "start"
  /\ ShouldLaunch(pipeline_name, region)
  /\ pc' = "lookup"
  /\ UNCHANGED <<pipeline_name, region, pipeline_definition, templates,
                 extracted, idx, exitCode, fault, lookups, notFoundPrinted,
                 ran, lintAborted, valAborted, lastScan>>

\* __main__: a flag is missing, the script ends without doing anything
MainSkip ==
  /\ pc = "start"
  /\ ~ShouldLaunch(pipeline_name, region)
  /\ Terminate(0, "none")
  /\ UNCHANGED <<pipeline_name, region, pipeline_definition, templates,
                 extracted, idx, lookups, notFoundPrinted, ran, lintAborted,
                 valAborted, lastScan>>

\* get_pipeline returns the definition
LookupOk ==
  /\ pc = "lookup"
  /\ \E p \in Pipelines : pipeline_definition' = [bound |-> TRUE, stages |-> p]
  /\ lookups' = lookups + 1
  /\ pc' = "extract"
  /\ UNCHANGED <<pipeline_name, region, templates, extracted, idx, exitCode,
                 fault, notFoundPrinted, ran, lintAborted, valAborted,
                 lastScan>>

\* get_pipeline raises PipelineNotFoundException: the handler prints and
\* falls through with pipeline_definition never assigned
LookupNotFound ==
  /\ pc = "lookup"
  /\ lookups' = lookups + 1
  /\ notFoundPrinted' = TRUE
  /\ pc' = "extract"
  /\ UNCHANGED <<pipeline_name, region, pipeline_definition, templates,
                 extracted, idx, exitCode, fault, ran, lintAborted,
                 valAborted, lastScan>>

\* the nested for loops over stages and actions
Extract ==
  /\ pc = "extract"
  /\ IF ~pipeline_definition.bound
     THEN /\ Terminate(1, "UnboundLocalError")
          /\ UNCHANGED <<templates, extracted, idx>>
     ELSE IF ExtractRaises(pipeline_definition.stages)
          THEN /\ Terminate(1, "IndexError")
               /\ UNCHANGED <<templates, extracted, idx>>
          ELSE /\ templates' = ExtractTemplates(pipeline_definition.stages)
               /\ extracted' = ExtractTemplates(pipeline_definition.stages)
               /\ idx' = 0
               /\ pc' = "normalize"
               /\ UNCHANGED <<exitCode, fault>>
  /\ UNCHANGED <<pipeline_name, region, pipeline_definition, lookups,
                 notFoundPrinted, ran, lintAborted, valAborted, lastScan>>

\* one iteration of the rewrite loop: the list iterator yields templates[idx]
NormalizeStep ==
  /\ pc = "normalize"
  /\ idx < Len(templates)
  /\ templates' = NormalizeIter(templates, idx + 1)
  /\ idx' = idx + 1
  /\ UNCHANGED <<pc, pipeline_name, region, pipeline_definition, extracted,
                 exitCode, fault, lookups, notFoundPrinted, ran, lintAborted,
                 valAborted, lastScan>>

\* the iterator is exhausted: return templates, launch prints them and
\* calls cfn_lint_checker
NormalizeReturn ==
  /\ pc = "normalize"
  /\ idx >= Len(templates)
  /\ pc' = "lint"
  /\ idx' = 0
  /\ UNCHANGED <<pipeline_name, region, pipeline_definition, templates,
                 extracted, exitCode, fault, lookups, notFoundPrinted, ran,
                 lintAborted, valAborted, lastScan>>

\* cfn-lint decodes and checks templates[idx] and prints the matches
LintOk ==
  /\ pc = "lint"
  /\ idx < Len(templates)
  /\ idx' = idx + 1
  /\ ran' = ran \cup {"lint"}
  /\ UNCHANGED <<pc, pipeline_name, region, pipeline_definition, templates,
                 extracted, exitCode, fault, lookups, notFoundPrinted,
                 lintAborted, valAborted, lastScan>>

\* decoding or checking templates[idx] raises
LintRaise ==
  /\ pc = "lint"
  /\ idx < Len(templates)
  /\ ran' = ran \cup {"lint"}
  /\ lintAborted' = TRUE
  /\ pc' = OnLoopException("lint", idx).pc
  /\ idx' = OnLoopException("lint", idx).idx
  /\ UNCHANGED <<pipeline_name, region, pipeline_definition, templates,
                 extracted, exitCode, fault, lookups, notFoundPrinted,
                 valAborted, lastScan>>

\* a for loop of a stage is exhausted: the function returns to launch
StageReturn ==
  /\ pc \in {"lint", "validate", "scan"}
  /\ idx >= Len(templates)
  /\ IF StageAfter(pc) = "done"
     THEN Terminate(0, "none") /\ UNCHANGED idx
     ELSE pc' = StageAfter(pc) /\ idx' = 0 /\ UNCHANGED <<exitCode, fault>>
  /\ UNCHANGED <<pipeline_name, region, pipeline_definition, templates,
                 extracted, lookups, notFoundPrinted, ran, lintAborted,
                 valAborted, lastScan>>

\* templates[idx] is read and validate_template accepts it
ValidateOk ==
  /\ pc = "validate"
  /\ idx < Len(templates)
  /\ idx' = idx + 1
  /\ ran' = ran \cup {"validate"}
  /\ UNCHANGED <<pc, pipeline_name, region, pipeline_definition, templates,
                 extracted, exitCode, fault, lookups, notFoundPrinted,
                 lintAborted, valAborted, lastScan>>

\* open/read or validate_template raises on templates[idx]
ValidateRaise ==
  /\ pc = "validate"
  /\ idx < Len(templates)
  /\ ran' = ran \cup {"validate"}
  /\ valAborted' = TRUE
  /\ pc' = OnLoopException("validate", idx).pc
  /\ idx' = OnLoopException("validate", idx).idx
  /\ UNCHANGED <<pipeline_name, region, pipeline_definition, templates,
                 extracted, exitCode, fault, lookups, notFoundPrinted,
                 lintAborted, lastScan>>

\* cfn_nag_checker calls run_command on templates[idx]
ScanStep ==
  /\ pc = "scan"
  /\ idx < Len(templates)
  /\ \E result \in ScanResults :
       LET rc == RunCommand(result) IN
       /\ ran' = ran \cup {"scan"}
       /\ idx' = idx + 1
       /\ CASE rc.effect = "return" ->
                 /\ lastScan' = [index |-> idx + 1, result |-> result,
                                 report |-> rc.report]
                 /\ UNCHANGED <<pc, exitCode, fault>>
            [] rc.effect = "exit" ->
                 /\ lastScan' = [index |-> idx + 1, result |-> result,
                                 report |-> rc.report]
                 /\ IF ExceptExceptionCatches("SystemExit")
                    THEN Terminate(0, "none")
                    ELSE Terminate(1, "SystemExit")
            [] rc.effect = "raise" ->
                 /\ lastScan' = [index |-> idx + 1, result |-> result,
                                 report |-> "issue"]
                 /\ IF ExceptExceptionCatches(result.kind)
                    THEN Terminate(0, "none")
                    ELSE Terminate(1, result.kind)
  /\ UNCHANGED <<pipeline_name, region, pipeline_definition, templates,
                 extracted, lookups, notFoundPrinted, lintAborted,
                 valAborted>>

Next ==
  \/ MainLaunch
  \/ MainSkip
  \/ LookupOk
  \/ LookupNotFound
  \/ Extract
  \/ NormalizeStep
  \/ NormalizeReturn
  \/ LintOk
  \/ LintRaise
  \/ ValidateOk
  \/ ValidateRaise
  \/ ScanStep
  \/ StageReturn

Spec == Init /\ [][Next]_vars

\* the interpreter always executes the next statement of the running script
FairSpec == Spec /\ WF_vars(Next)

TypeOK ==
  /\ pc \in {"start", "lookup", "extract", "normalize", "lint", "validate",
             "scan", "done"}
  /\ exitCode \in {0, 1}
  /\ idx \in 0..MaxActions
  /\ lookups \in {0, 1}

(* --------------------------- shared predicates ------------------------- *)
\* fetch_pipeline_definition has returned its list
Resolved == pc \in {"lint", "validate", "scan"}

\* the latest scanner call did not exit successfully and its output does
\* not contain the marker
NonCleanScan ==
  /\ lastScan.result.kind \in {"CalledProcessError", "OSError"}
  /\ ~Contains(lastScan.result.output, FailuresMarker)

\* the latest scanner call exited non-zero with a non-empty output that
\* does not contain the marker
FailingScan ==
  /\ lastScan.result.kind = "CalledProcessError"
  /\ lastScan.result.output # <<>>
  /\ ~Contains(lastScan.result.output, FailuresMarker)

\* the elementwise rewrite of the extracted list
Mapped == [i \in 1..Len(extracted) |-> FixedName(extracted[i])]

\* the "template" counterparts of the packaged paths that were extracted
Counterparts ==
  {FixedName(extracted[i]) : i \in {j \in 1..Len(extracted) : IsPackaged(extracted[j])}}

(* ------------------------------- claims -------------------------------- *)
\* C1: the process exit code is non-zero only when the security scan
\* reported a template as having failures; a missing pipeline, a malformed
\* TemplatePath and lint or validation errors all end with exit code 0.
C1_NonZeroOnlyFromScan ==
  pc = "done" =>
    /\ exitCode \in {0, 1}
    /\ exitCode # 0 => lastScan.report = "failures"

\* C2: whenever the scanner does not exit successfully and its output lacks
\* "Failures count: 0" (also when the executable is missing or the output
\* is empty), the template is reported as having failures and the process
\* ends with exit code 1.
C2_NonCleanScanExitsOne ==
  NonCleanScan =>
    /\ lastScan.report = "failures"
    /\ pc = "done"
    /\ exitCode = 1

\* C3: once run_command reports failures for a template (non-zero exit,
\* non-empty output without the marker) the process is over with exit code
\* 1: SystemExit passes the "except Exception" handler and the failing
\* template is the last one that was ever scanned.
C3_FirstFailureHalts ==
  FailingScan =>
    /\ lastScan.report = "failures"
    /\ pc = "done"
    /\ exitCode = 1
    /\ fault = "SystemExit"
    /\ idx = lastScan.index

\* a failing scan of a template that has other templates after it
C3_Witness ==
  /\ FailingScan
  /\ pc = "done"
  /\ lastScan.index < Len(templates)

\* C4: the list returned by fetch_pipeline_definition contains no path with
\* the substring "packaged".
C4_NoPackagedLeft ==
  Resolved => \A i \in 1..Len(templates) : ~IsPackaged(templates[i])

\* C5: the list returned by fetch_pipeline_definition holds the extracted
\* relative paths (packaged ones rewritten) in discovery order.
C5_DiscoveryOrder == Resolved => templates = Mapped

\* C6: the stages never interleave: a template is linted only while nothing
\* has been validated or scanned, validated only while nothing has been
\* scanned, validation starts only from a lint stage that has finished its
\* loop and scanning only from a validation stage that has finished its loop.
C6_StageOrder ==
  [][ /\ (pc = "lint" /\ idx < Len(templates))
           => ran \cap {"validate", "scan"} = {}
      /\ (pc = "validate" /\ idx < Len(templates)) => "scan" \notin ran
      /\ (pc' = "validate" /\ pc # "validate")
           => pc = "lint" /\ (idx = Len(templates) \/ lintAborted')
      /\ (pc' = "scan" /\ pc # "scan")
           => pc = "validate" /\ (idx = Len(templates) \/ valAborted')
      /\ ("validate" \in ran' /\ "validate" \notin ran) => pc = "validate"
      /\ ("scan" \in ran' /\ "scan" \notin ran) => pc = "scan"
    ]_vars

\* all three stages went through a list of several templates
C6_Witness ==
  /\ pc = "scan"
  /\ idx = Len(templates)
  /\ Len(templates) >= 2
  /\ ran = {"lint", "validate", "scan"}
  /\ ~lintAborted
  /\ ~valAborted

\* C7: when --pipeline_name or --region is absent the process looks up no
\* pipeline, runs no lint, validation or scan step and exits with code 0.
C7_MissingFlagNoWork ==
  (~pipeline_name.given \/ ~region.given) =>
    /\ pc \in {"start", "done"}
    /\ lookups = 0
    /\ ran = {}
    /\ pc = "done" => exitCode = 0

\* the script has ended with only --region given
C7_Witness ==
  /\ pc = "done"
  /\ ~pipeline_name.given
  /\ Truthy(region)

\* C8: an error on a template of the lint (validation) stage is caught at
\* the loop level: the rest of that stage's templates are skipped, the next
\* stage starts at the first template of the unchanged list, and the process
\* goes on with its exit code untouched; a run with such an error ends
\* non-zero only if the security scan reports failures.
C8_LoopLevelCatch ==
  /\ [][ /\ (pc = "lint" /\ lintAborted' /\ ~lintAborted)
              => /\ idx < Len(templates)
                 /\ pc' = "validate"
                 /\ idx' = 0
                 /\ templates' = templates
                 /\ exitCode' = exitCode
         /\ (pc = "validate" /\ valAborted' /\ ~valAborted)
              => /\ idx < Len(templates)
                 /\ pc' = "scan"
                 /\ idx' = 0
                 /\ templates' = templates
                 /\ exitCode' = exitCode
       ]_vars
  /\ []((pc = "done" /\ (lintAborted \/ valAborted) /\ exitCode # 0)
          => lastScan.report = "failures")

\* lint failed on the first of several templates, validation failed too,
\* and the scan went through the whole list
C8_Witness ==
  /\ pc = "done"
  /\ lintAborted
  /\ valAborted
  /\ "lint" \in ran
  /\ Len(templates) >= 2
  /\ lastScan.index = Len(templates)
  /\ exitCode = 0

\* C9: after the "does not exist" message the resolver faults on the unbound
\* definition, no stage runs on any template, and the process does not
\* report a failure.
C9_NotFoundNotSurfaced ==
  (notFoundPrinted /\ pc = "done") =>
    /\ fault = "UnboundLocalError"
    /\ templates = <<>>
    /\ ran = {}
    /\ exitCode = 0

\* C10 as stated: the rewrite keeps the length, keeps every path without
\* "packaged" with exactly its multiplicity and relative order, and yields
\* only input paths or their rewrites.
C10_SameMultiplicity ==
  Resolved =>
    /\ Len(templates) = Len(extracted)
    /\ \A i \in 1..Len(extracted) :
         NotPackaged(extracted[i]) =>
           Count(templates, extracted[i]) = Count(extracted, extracted[i])
    /\ IsPrefix(SelectSeq(extracted, NotPackaged),
                SelectSeq(templates, NotPackaged))
    /\ \A i \in 1..Len(templates) :
         \E j \in 1..Len(extracted) :
            templates[i] \in {extracted[j], FixedName(extracted[j])}

\* the loop invariant of the rewrite
C10_RewriteInv ==
  /\ idx <= Len(templates)
  /\ Len(templates) = Len(extracted)
  /\ \A i \in 1..Len(extracted) :
       NotPackaged(extracted[i]) =>
         /\ Count(templates, extracted[i]) >= Count(extracted, extracted[i])
         /\ extracted[i] \notin Counterparts =>
              Count(templates, extracted[i]) = Count(extracted, extracted[i])
  /\ IsPrefix(SelectSeq(extracted, NotPackaged),
              SelectSeq(templates, NotPackaged))
  /\ \A i \in 1..Len(templates) :
       \E j \in 1..Len(extracted) :
          templates[i] \in {extracted[j], FixedName(extracted[j])}

\* C10 (amended): the rewrite loop terminates, keeps the length, keeps the
\* paths without "packaged" in their relative order, each at least as often
\* as in the input and exactly as often unless it is the "template"
\* counterpart of a packaged input path, and yields only input paths or
\* their rewrites.
C10_RewriteTerminatesAndPreserves ==
  /\ []C10_RewriteInv
  /\ [][pc = "normalize" => (pc' = "normalize" => idx' = idx + 1)]_vars
  /\ (pc = "normalize") ~> (pc = "lint")

\* a list mixing packaged and other paths has been rewritten
C10_Witness ==
  /\ pc = "lint"
  /\ Len(extracted) >= 3
  /\ \E i \in 1..Len(extracted) : IsPackaged(extracted[i])
  /\ \E i \in 1..Len(extracted) : NotPackaged(extracted[i])
  /\ templates # extracted

====
